---- MODULE Spec2Model ----
(***************************************************************************)
(* Boostify: a Telegram ordering bot (src/bot.py).                         *)
(*                                                                         *)
(* The model has two layers, as the program has:                           *)
(*   - the Remote Service Client (calculate_price .. fetch_order_status),  *)
(*     pure functions of their arguments and of the HTTP answer they get;  *)
(*   - the Conversation Controller (start, button, handle_message), one    *)
(*     action per handler, acting on context.user_data of the user the     *)
(*     update came from.                                                   *)
(*                                                                         *)
(* Strings are sequences of tokens: a token is one character ("1", ",",    *)
(* " ", "_", "a") or an atom standing for a run of characters that holds   *)
(* no digit, whitespace, comma, sign or underscore (a menu phrase, the     *)
(* prefix "serv").  strip, split, isdigit and int work on the tokens the   *)
(* way Python works on the characters.                                     *)
(*                                                                         *)
(* A dict is a function whose DOMAIN is the set of keys present; d[k] of   *)
(* an absent key is a KeyError, d.get(k) is None.                          *)
(***************************************************************************)
EXTENDS Integers, Sequences, FiniteSets, TLC

VARIABLES
    user_data,   \* user -> dict: context.user_data of each user
    shown,       \* user -> the inline buttons the bot has sent to that user
    last,        \* the update handled last, with what its handler did
    handled      \* how many updates were handled so far

vars == <<user_data, shown, last, handled>>

----------------------------------------------------------------------------
(* Bounds of the model *)

\* how many category prompts stay on the user's screen (older ones scroll away)
MaxPrompts == 2

\* how many updates a run delivers
MaxUpdates == 6

\* how many updates a run of two users delivers
MaxUsersUpdates == 5

\* how many updates a run of the order flow delivers
MaxOrderUpdates == 7

----------------------------------------------------------------------------
(* Program constants *)

MinQuantity == 10
MaxQuantity == 50000
MaxCancelIds == 100
PerThousand == 1000

----------------------------------------------------------------------------
(* Python values *)

EmptyDict == [k \in {} |-> TRUE]

Has(d, k) == k \in DOMAIN d

Put(d, k, v) == [x \in (DOMAIN d) \cup {k} |-> IF x = k THEN v ELSE d[x]]

\* None where a string is expected
None == <<"None">>

Digits == {"0", "1", "2", "3", "4", "5", "6", "7", "8", "9"}

DigitValue(c) ==
    CASE c = "0" -> 0 [] c = "1" -> 1 [] c = "2" -> 2 [] c = "3" -> 3
      [] c = "4" -> 4 [] c = "5" -> 5 [] c = "6" -> 6 [] c = "7" -> 7
      [] c = "8" -> 8 [] c = "9" -> 9

\* str.strip()
RECURSIVE lstrip(_)
lstrip(s) == IF Len(s) > 0 /\ s[1] = " " THEN lstrip(Tail(s)) ELSE s

RECURSIVE rstrip(_)
rstrip(s) ==
    IF Len(s) > 0 /\ s[Len(s)] = " " THEN rstrip(SubSeq(s, 1, Len(s) - 1)) ELSE s

strip(s) == rstrip(lstrip(s))

\* str.isdigit(): non-empty and every character a digit
isdigit(s) == Len(s) > 0 /\ \A i \in 1..Len(s) : s[i] \in Digits

\* str.split(sep): the pieces between the separators, empty pieces kept;
\* a piece starts at the first character and after every separator
split(s, sep) ==
    LET IsStart(i) == i = 1 \/ s[i - 1] = sep
        starts == SelectSeq([i \in 1..(Len(s) + 1) |-> i], IsStart)
    IN  [k \in 1..Len(starts) |->
            SubSeq(s, starts[k],
                   IF k < Len(starts) THEN starts[k + 1] - 2 ELSE Len(s))]

\* str.startswith(prefix)
startswith(s, prefix) ==
    Len(s) >= Len(prefix) /\ SubSeq(s, 1, Len(prefix)) = prefix

\* the digits of an int literal: digit groups joined by single underscores
IntLiteral(s) ==
    /\ Len(s) > 0
    /\ s[1] \in Digits
    /\ s[Len(s)] \in Digits
    /\ \A i \in 1..Len(s) : s[i] \in Digits \cup {"_"}
    /\ \A i \in 1..(Len(s) - 1) : ~(s[i] = "_" /\ s[i + 1] = "_")

RECURSIVE DecimalValue(_, _)
DecimalValue(s, acc) ==
    IF Len(s) = 0 THEN acc
    ELSE IF s[1] = "_" THEN DecimalValue(Tail(s), acc)
    ELSE DecimalValue(Tail(s), 10 * acc + DigitValue(s[1]))

\* int(text): [ok |-> FALSE] stands for the ValueError
int(text) ==
    LET t      == strip(text)
        signed == Len(t) > 0 /\ t[1] \in {"+", "-"}
        body   == IF signed THEN Tail(t) ELSE t
        sign   == IF signed /\ t[1] = "-" THEN -1 ELSE 1
    IN  IF IntLiteral(body)
        THEN [ok |-> TRUE, value |-> sign * DecimalValue(body, 0)]
        ELSE [ok |-> FALSE, value |-> 0]

\* float(v) of a JSON rate, in hundredths: digits with at most one point and at
\* most two decimals; [ok |-> FALSE] stands for the ValueError
float(v) ==
    LET parts == split(v, ".")
        whole == parts[1]
        frac  == IF Len(parts) = 2 THEN parts[2] ELSE <<>>
        cents == IF Len(frac) = 0 THEN 0
                 ELSE IF Len(frac) = 1 THEN 10 * DigitValue(frac[1])
                 ELSE 10 * DigitValue(frac[1]) + DigitValue(frac[2])
    IN  IF /\ Len(parts) <= 2
           /\ isdigit(whole)
           /\ (Len(parts) = 2 => isdigit(frac) /\ Len(frac) <= 2)
        THEN [ok |-> TRUE, value |-> 100 * DecimalValue(whole, 0) + cents]
        ELSE [ok |-> FALSE, value |-> 0]

----------------------------------------------------------------------------
(* JSON values and HTTP answers *)

\* a JSON scalar: a string, a number (its decimal digits) or null
JStr(s) == [s |-> s, t |-> "str"]
JInt(s) == [s |-> s, t |-> "int"]
PyNone == [s |-> <<"None">>, t |-> "null"]

\* str(v), also what an f-string puts for v
str(v) == v.s

\* bool(v): None, "" and 0 are false
Truthy(v) ==
    CASE v.t = "null" -> FALSE
      [] v.t = "str" -> v.s # <<>>
      [] v.t = "int" -> DecimalValue(v.s, 0) # 0

\* d.get(k, default)
Get(d, k, default) == IF Has(d, k) THEN d[k] ELSE default

\* what session.post gives: net = the request completed, json = the body is
\* JSON, type = the shape of the JSON value
Answer(net, json, type, items, fields) ==
    [net |-> net, json |-> json, type |-> type, items |-> items, fields |-> fields]

NetworkFailure == Answer(FALSE, FALSE, "none", <<>>, EmptyDict)
NonJsonBody == Answer(TRUE, FALSE, "none", <<>>, EmptyDict)
ScalarJson == Answer(TRUE, TRUE, "scalar", <<>>, EmptyDict)
ErrorJson ==
    Answer(TRUE, TRUE, "dict", <<>>, [error |-> JStr(<<"Incorrect request">>)])

\* the services of the remote catalog, at two moments
SvcLikes ==
    [service |-> JInt(<<"1">>), name |-> <<"Likes">>, category |-> <<"SMM">>,
     rate |-> JStr(<<"1", "0", ".", "0">>)]
SvcLikesRepriced ==
    [service |-> JStr(<<"1">>), name |-> <<"Likes">>, category |-> <<"SMM">>,
     rate |-> JStr(<<"1", "2", ".", "5">>), rate_per |-> <<"1000">>]
SvcViews ==
    [name |-> <<"Views">>, category |-> <<"TG">>, rate |-> JStr(<<"5">>),
     id |-> JInt(<<"2">>)]
SvcSubs ==
    [service |-> JInt(<<"3">>), name |-> <<"Subs">>, category |-> <<"INST">>,
     rate |-> JStr(<<"n/a">>)]
SvcNoId == [name |-> <<"Draft">>, category |-> <<"TG">>]
\* a service given with a string id, a category and a rate only
SvcPlain ==
    [service |-> JStr(<<"1">>), category |-> <<"SMM">>,
     rate |-> JStr(<<"1", "0", ".", "0">>)]

CatalogA == Answer(TRUE, TRUE, "list", <<SvcLikes, SvcViews>>, EmptyDict)
CatalogB == Answer(TRUE, TRUE, "list", <<SvcSubs, SvcLikesRepriced, SvcNoId>>, EmptyDict)
\* the same service id twice, as a number and as a string, with two rates
CatalogTwice == Answer(TRUE, TRUE, "list", <<SvcLikes, SvcLikesRepriced>>, EmptyDict)
\* one service of category SMM and one other of a different category
CatalogPlain == Answer(TRUE, TRUE, "list", <<SvcPlain, SvcViews>>, EmptyDict)

OrderPlaced ==
    Answer(TRUE, TRUE, "dict", <<>>, [order |-> JInt(<<"9", "0", "0", "1">>)])
OrderRefused == Answer(TRUE, TRUE, "dict", <<>>, EmptyDict)
CancelDone == Answer(TRUE, TRUE, "list", <<>>, EmptyDict)
BalanceJson ==
    Answer(TRUE, TRUE, "dict", <<>>,
           [balance |-> JStr(<<"1", "0", "0", ".", "5">>), currency |-> JStr(<<"RUB">>)])
StatusJson ==
    Answer(TRUE, TRUE, "dict", <<>>,
           [charge |-> JStr(<<"0", ".", "5">>), status |-> JStr(<<"Completed">>)])

\* every kind of answer: the request fails, the body is no JSON, the JSON
\* reports an error, the JSON has another shape than expected, the JSON is a
\* well-formed answer to one of the five actions
Answers ==
    {NetworkFailure, NonJsonBody, ErrorJson, ScalarJson, CatalogA, CatalogB,
     CatalogTwice, CatalogPlain, OrderPlaced, OrderRefused, CancelDone, BalanceJson, StatusJson}

----------------------------------------------------------------------------
(* Exceptions *)

\* the classes an except clause for cls catches
Catches(cls, exc) ==
    CASE cls = "Exception" -> TRUE
      [] cls = "ClientError" -> exc \in {"ClientError", "ContentTypeError"}
      [] cls = "JSONDecodeError" -> exc = "JSONDecodeError"
      [] cls = "ValueError" -> exc \in {"ValueError", "JSONDecodeError"}
      [] cls = "TypeError" -> exc = "TypeError"

\* how a block ends: by returning a value, by raising, or by running off its end
Return(v) == [value |-> <<v>>, exc |-> "none", how |-> "return"]
Raise(exc) == [value |-> <<>>, exc |-> exc, how |-> "raise"]
FallThrough == [value |-> <<>>, exc |-> "none", how |-> "end"]

\* await response.json(): the parsed body, or the exception it raises
ResponseJson(ans) ==
    IF ~ans.net THEN Raise("ClientError")
    ELSE IF ~ans.json THEN Raise("ContentTypeError")
    ELSE Return(ans)

\* await response.text() then json.loads
JsonLoads(ans) ==
    IF ~ans.net THEN Raise("ClientError")
    ELSE IF ~ans.json THEN Raise("JSONDecodeError")
    ELSE Return(ans)

----------------------------------------------------------------------------
(* Remote Service Client *)

\* (None, None)
NonePair == [rate |-> 0, none |-> TRUE, total |-> 0]

\* (total, price): price in hundredths, total = price * quantity / 1000 kept
\* as the numerator price * quantity over PerThousand
\* return price, total: the pair in the wrong order
PricePairSwapped(price, quantity) ==
    [rate |-> price * quantity, none |-> FALSE, total |-> price]

PricePair(price, quantity) ==
    [rate |-> price, none |-> FALSE, total |-> price * quantity]

\* the loop of calculate_price over the services from index i on
RECURSIVE PriceLoop(_, _, _, _)
PriceLoop(items, i, service_id, quantity) ==
    IF i > Len(items) THEN FallThrough
    ELSE IF str(Get(items[i], "service", PyNone)) = service_id
    THEN LET price == float(str(Get(items[i], "rate", JInt(<<"0">>))))
         IN  IF price.ok THEN Return(PricePair(price.value, quantity))
             ELSE Raise("ValueError")
    ELSE PriceLoop(items, i + 1, service_id, quantity)

\* the try block of calculate_price
PriceTry(service_id, quantity, ans) ==
    LET data == ResponseJson(ans)
    IN  IF data.how = "raise" THEN data
        ELSE IF ans.type = "scalar" THEN Raise("TypeError")
        ELSE IF ans.type = "dict"
        THEN (IF DOMAIN ans.fields = {} THEN FallThrough ELSE Raise("AttributeError"))
        ELSE PriceLoop(ans.items, 1, service_id, quantity)

\* an except clause for the transport errors only
ExceptClientError == "ClientError"

\* the except clause of calculate_price
PriceExcept == "Exception"

calculate_price(service_id, quantity, ans) ==
    LET body == PriceTry(service_id, quantity, ans)
    IN  IF body.how = "return" THEN body
        ELSE IF body.how = "raise" /\ ~Catches(PriceExcept, body.exc) THEN body
        ELSE Return(NonePair)

\* the try block of place_order
PlaceTry(ans) ==
    LET data == ResponseJson(ans)
    IN  IF data.how = "raise" THEN data
        ELSE IF ans.type # "dict" THEN Raise("AttributeError")
        ELSE Return(Get(ans.fields, "order", PyNone))

place_order(service_id, link, quantity, ans) ==
    LET body == PlaceTry(ans)
    IN  IF body.how = "return" THEN body
        ELSE IF body.how = "raise" /\ ~Catches("Exception", body.exc) THEN body
        ELSE Return(PyNone)

\* the user-facing strings of cancel_orders, fetch_balance, fetch_order_status
Message(kind, detail) == <<kind>> \o detail

\* the inner try of cancel_orders and what follows it
CancelTry(ans) ==
    LET data == JsonLoads(ans)
    IN  IF data.how = "raise" /\ data.exc = "JSONDecodeError"
        THEN Return(Message("cancel: malformed response", <<>>))
        ELSE IF data.how = "raise" THEN data
        ELSE IF ans.type = "scalar" THEN Raise("TypeError")
        ELSE IF ans.type = "dict" /\ Has(ans.fields, "error")
        THEN Return(Message("cancel: error", str(ans.fields["error"])))
        ELSE Return(Message("cancel: done", <<>>))

cancel_orders(order_ids, ans) ==
    LET body == CancelTry(ans)
    IN  IF body.how # "raise" THEN body
        ELSE IF Catches("ClientError", body.exc)
        THEN Return(Message("cancel: network error", <<>>))
        ELSE IF Catches("Exception", body.exc)
        THEN Return(Message("cancel: internal error", <<>>))
        ELSE body

\* the order of Python's sorted() on the category names of the catalog
Alphabetical == <<<<"INST">>, <<"SMM">>, <<"TG">>>>

Rank(c) == CHOOSE i \in 1..Len(Alphabetical) : Alphabetical[i] = c

\* sorted(..., reverse=True)
RECURSIVE sortedDescending(_)
sortedDescending(S) ==
    IF S = {} THEN <<>>
    ELSE LET m == CHOOSE x \in S : \A y \in S : Rank(x) >= Rank(y)
         IN  <<m>> \o sortedDescending(S \ {m})

RECURSIVE sorted(_)
sorted(S) ==
    IF S = {} THEN <<>>
    ELSE LET m == CHOOSE x \in S : \A y \in S : Rank(x) <= Rank(y)
         IN  <<m>> \o sorted(S \ {m})

\* the try block of fetch_categories
CategoriesTry(ans) ==
    LET data == ResponseJson(ans)
    IN  IF data.how = "raise" THEN data
        ELSE IF ans.type = "scalar" THEN Raise("TypeError")
        ELSE IF ans.type = "dict" THEN Return(<<>>)
        ELSE Return(sorted({ans.items[i].category :
                              i \in {j \in 1..Len(ans.items) :
                                        Has(ans.items[j], "category")}}))

fetch_categories(ans) ==
    LET body == CategoriesTry(ans)
    IN  IF body.how = "return" THEN body
        ELSE IF body.how = "raise" /\ ~Catches("Exception", body.exc) THEN body
        ELSE Return(<<>>)

\* the label of a service: its id, name and price
Label(service_id, name, price) == <<str(service_id), name, price>>

\* the price part of the label: the rate with its rate_per, or "not given"
LabelPrice(s) ==
    LET price == float(str(Get(s, "rate", JInt(<<"0">>))))
    IN  IF price.ok
        THEN <<"price", price.value, Get(s, "rate_per", <<"1000">>)>>
        ELSE <<"not given", 0, <<>>>>

\* service_id = s.get("service") or s.get("id")
ServiceIdOf(s) ==
    IF Truthy(Get(s, "service", PyNone)) THEN s.service ELSE Get(s, "id", PyNone)

\* the loop of fetch_services over the services from index i on
RECURSIVE ServicesLoop(_, _, _)
ServicesLoop(items, i, category) ==
    IF i > Len(items) THEN <<>>
    ELSE LET s == items[i]
         IN  IF Get(s, "category", None) # category \/ ServiceIdOf(s) = PyNone
             THEN ServicesLoop(items, i + 1, category)
             ELSE <<<<ServiceIdOf(s),
                      Label(ServiceIdOf(s), Get(s, "name", <<"unnamed">>),
                            LabelPrice(s))>>>>
                  \o ServicesLoop(items, i + 1, category)

\* the try block of fetch_services
ServicesTry(category, ans) ==
    LET data == ResponseJson(ans)
    IN  IF data.how = "raise" THEN data
        ELSE IF ans.type # "list" THEN Return(<<>>)
        ELSE Return(ServicesLoop(ans.items, 1, category))

fetch_services(category, ans) ==
    LET body == ServicesTry(category, ans)
    IN  IF body.how = "return" THEN body
        ELSE IF body.how = "raise" /\ ~Catches("Exception", body.exc) THEN body
        ELSE Return(<<>>)

\* the try block of fetch_balance
BalanceTry(ans) ==
    LET data == ResponseJson(ans)
    IN  IF data.how = "raise" THEN data
        ELSE IF ans.type # "dict" THEN Raise("AttributeError")
        ELSE IF Has(ans.fields, "balance")
        THEN Return(Message("balance", str(ans.fields["balance"])))
        ELSE Return(Message("balance: error", <<>>))

fetch_balance(ans) ==
    LET body == BalanceTry(ans)
    IN  IF body.how = "return" THEN body
        ELSE IF body.how = "raise" /\ ~Catches("Exception", body.exc) THEN body
        ELSE Return(Message("balance: error", <<>>))

\* data.get(k, default) in the status message
StatusField(fields, k) ==
    IF Has(fields, k) THEN str(fields[k]) ELSE <<"no data">>

\* the inner try of fetch_order_status and what follows it
StatusTry(order_id, ans) ==
    LET data == JsonLoads(ans)
    IN  IF data.how = "raise" /\ data.exc = "JSONDecodeError"
        THEN Return(Message("status: malformed response", <<>>))
        ELSE IF data.how = "raise" THEN data
        ELSE IF ans.type = "scalar" THEN Raise("TypeError")
        ELSE IF ans.type = "dict" /\ Has(ans.fields, "error")
        THEN Return(Message("status: error", str(ans.fields["error"])))
        ELSE IF ans.type # "dict" THEN Raise("AttributeError")
        ELSE Return(Message("status", order_id
                              \o StatusField(ans.fields, "charge")
                              \o StatusField(ans.fields, "service")
                              \o StatusField(ans.fields, "status")
                              \o StatusField(ans.fields, "remains")))

fetch_order_status(order_id, ans) ==
    LET body == StatusTry(order_id, ans)
    IN  IF body.how # "raise" THEN body
        ELSE IF Catches("ClientError", body.exc)
        THEN Return(Message("status: network error", <<>>))
        ELSE IF Catches("Exception", body.exc)
        THEN Return(Message("status: internal error", <<>>))
        ELSE body

----------------------------------------------------------------------------
(* Conversation Controller: the updates *)

Users == {"u1", "u2"}

\* the four phrases of the reply keyboard
MenuOrder == <<"[place order]">>
MenuBalance == <<"[balance]">>
MenuStatus == <<"[order status]">>
MenuCancel == <<"[cancel order]">>

MenuTexts == {MenuOrder, MenuBalance, MenuStatus, MenuCancel}

\* n comma-separated order ids, "7,7,..,7"
IdList(n) == [i \in 1..(2 * n - 1) |-> IF i % 2 = 1 THEN "7" ELSE ","]

\* the other texts a user sends
FreeTexts ==
    { <<"9">>, <<"1", "0">>, <<"5", "0", "0", "0", "0">>, <<"5", "0", "0", "0", "1">>,
      <<"abc">>,
      <<" ", "1", "0", ",", " ", "1", "1", " ">>, <<"1", "0", ",", "abc">>,
      <<"1", "0", ",">>, IdList(MaxCancelIds), IdList(MaxCancelIds + 1) }

Texts == MenuTexts \cup FreeTexts

\* the decimal digits of a natural number
RECURSIVE Decimal(_)
Decimal(n) ==
    LET d == <<"0", "1", "2", "3", "4", "5", "6", "7", "8", "9">>[(n % 10) + 1]
    IN  IF n < 10 THEN <<d>> ELSE Decimal(n \div 10) \o <<d>>

\* callback_data of the inline buttons
CatData(i) == <<"cat", "_">> \o Decimal(i)
ServData(service_id) == <<"serv", "_">> \o str(service_id)
ConfirmData == <<"confirm", "_", "order">>
CancelData == <<"cancel", "_", "order">>

\* one reply_text
Reply(kind, detail) == [kind |-> kind, detail |-> detail]

\* one call of the Remote Service Client: its arguments and what it gave back
Call(op, args, result) == [op |-> op, args |-> args, result |-> result]

\* how a handler ends: the user's dict, the branch taken, the calls made, the
\* replies sent and the exception that ended it ("none": it returned)
Outcome(d, branch, calls, replies, fault) ==
    [d |-> d, branch |-> branch, calls |-> calls, replies |-> replies, fault |-> fault]

\* context.user_data.get(flag) as a condition
Flag(d, k) == Has(d, k) /\ d[k] = TRUE

----------------------------------------------------------------------------
(* Conversation Controller: handle_message *)

\* the chain with the awaiting-flags tested before the menu phrases
MessageBranchFlagsFirst(d, text) ==
    IF Flag(d, "awaiting_link") THEN "awaiting_link"
    ELSE IF Flag(d, "awaiting_quantity") THEN "awaiting_quantity"
    ELSE IF Flag(d, "awaiting_order_status") THEN "awaiting_order_status"
    ELSE IF Flag(d, "awaiting_cancel_orders") THEN "awaiting_cancel_orders"
    ELSE IF text = MenuOrder THEN "order"
    ELSE IF text = MenuBalance THEN "balance"
    ELSE IF text = MenuStatus THEN "status"
    ELSE IF text = MenuCancel THEN "cancel"
    ELSE "none"

\* the if/elif chain of handle_message
MessageBranch(d, text) ==
    IF text = MenuOrder THEN "order"
    ELSE IF text = MenuBalance THEN "balance"
    ELSE IF text = MenuStatus THEN "status"
    ELSE IF text = MenuCancel THEN "cancel"
    ELSE IF Flag(d, "awaiting_link") THEN "awaiting_link"
    ELSE IF Flag(d, "awaiting_quantity") THEN "awaiting_quantity"
    ELSE IF Flag(d, "awaiting_order_status") THEN "awaiting_order_status"
    ELSE IF Flag(d, "awaiting_cancel_orders") THEN "awaiting_cancel_orders"
    ELSE "none"

\* text == "place order"
OrderMenu(d, ans) ==
    LET r    == fetch_categories(ans)
        call == Call("fetch_categories", <<>>, r)
    IN  IF r.how = "raise" THEN Outcome(d, "order", <<call>>, <<>>, r.exc)
        ELSE IF r.value[1] = <<>>
        THEN Outcome(d, "order", <<call>>,
                     <<Reply("categories not loaded", <<>>)>>, "none")
        ELSE Outcome(Put(d, "categories", r.value[1]), "order", <<call>>,
                     <<Reply("choose category", r.value[1])>>, "none")

\* text == "balance"
BalanceMenu(d, ans) ==
    LET r    == fetch_balance(ans)
        call == Call("fetch_balance", <<>>, r)
    IN  IF r.how = "raise" THEN Outcome(d, "balance", <<call>>, <<>>, r.exc)
        ELSE Outcome(d, "balance", <<call>>, <<Reply("balance", r.value[1])>>, "none")

\* text == "order status"
StatusMenu(d) ==
    Outcome(Put(d, "awaiting_order_status", TRUE), "status", <<>>,
            <<Reply("enter order id", <<>>)>>, "none")

\* text == "cancel order"
CancelMenu(d) ==
    Outcome(Put(d, "awaiting_cancel_orders", TRUE), "cancel", <<>>,
            <<Reply("enter order ids", <<>>)>>, "none")

\* the branch with the link not stored
LinkStepUnstored(d, text) ==
    Outcome(Put(Put(d, "awaiting_link", FALSE), "awaiting_quantity", TRUE),
            "awaiting_link", <<>>, <<Reply("enter quantity", <<>>)>>, "none")

\* the awaiting_link branch
LinkStep(d, text) ==
    Outcome(Put(Put(Put(d, "link", text), "awaiting_link", FALSE),
                "awaiting_quantity", TRUE),
            "awaiting_link", <<>>, <<Reply("enter quantity", <<>>)>>, "none")

\* the range check with the lower limit itself refused
QuantityAboveMin(quantity) == ~(quantity <= MinQuantity \/ quantity > MaxQuantity)

\* not (quantity < 10 or quantity > 50000)
\* the range check without its lower limit
QuantityBelowMax(quantity) == ~(quantity > MaxQuantity)

QuantityInRange(quantity) == ~(quantity < MinQuantity \/ quantity > MaxQuantity)

\* a value all([..]) takes as true: present, not None, not ""
Present(d, k) == Has(d, k) /\ d[k] # <<>>

\* the branch with awaiting_quantity reset once the confirmation prompt is sent
QuantityStepOnce(d, text, ans) ==
    LET quantity == int(text)
    IN  IF ~quantity.ok
        THEN Outcome(d, "awaiting_quantity", <<>>,
                     <<Reply("not a number", <<>>)>>, "none")
        ELSE IF ~QuantityInRange(quantity.value)
        THEN Outcome(d, "awaiting_quantity", <<>>,
                     <<Reply("quantity out of range", <<>>)>>, "none")
        ELSE IF ~(Present(d, "selected_service_id") /\ Present(d, "link"))
        THEN Outcome(d, "awaiting_quantity", <<>>,
                     <<Reply("service or link missing", <<>>)>>, "none")
        ELSE LET service_id == d["selected_service_id"]
                 link == d["link"]
                 r    == calculate_price(service_id, quantity.value, ans)
                 call == Call("calculate_price", <<service_id, quantity.value>>, r)
             IN  IF r.how = "raise" /\ Catches("ValueError", r.exc)
                 THEN Outcome(d, "awaiting_quantity", <<call>>,
                              <<Reply("not a number", <<>>)>>, "none")
                 ELSE IF r.how = "raise"
                 THEN Outcome(d, "awaiting_quantity", <<call>>, <<>>, r.exc)
                 ELSE IF r.value[1].none
                 THEN Outcome(d, "awaiting_quantity", <<call>>,
                              <<Reply("price not computed", <<>>)>>, "none")
                 ELSE Outcome(Put(Put(d, "awaiting_quantity", FALSE), "order_details",
                                  [quantity |-> quantity.value,
                                   service_id |-> service_id, link |-> link]),
                              "awaiting_quantity", <<call>>,
                              <<Reply("confirm order",
                                      <<link, quantity.value, r.value[1].rate,
                                        r.value[1].total>>)>>,
                              "none")

\* the awaiting_quantity branch
QuantityStep(d, text, ans) ==
    LET quantity == int(text)
    IN  IF ~quantity.ok
        THEN Outcome(d, "awaiting_quantity", <<>>,
                     <<Reply("not a number", <<>>)>>, "none")
        ELSE IF ~QuantityInRange(quantity.value)
        THEN Outcome(d, "awaiting_quantity", <<>>,
                     <<Reply("quantity out of range", <<>>)>>, "none")
        ELSE IF ~(Present(d, "selected_service_id") /\ Present(d, "link"))
        THEN Outcome(d, "awaiting_quantity", <<>>,
                     <<Reply("service or link missing", <<>>)>>, "none")
        ELSE LET service_id == d["selected_service_id"]
                 link == d["link"]
                 r    == calculate_price(service_id, quantity.value, ans)
                 call == Call("calculate_price", <<service_id, quantity.value>>, r)
             IN  IF r.how = "raise" /\ Catches("ValueError", r.exc)
                 THEN Outcome(d, "awaiting_quantity", <<call>>,
                              <<Reply("not a number", <<>>)>>, "none")
                 ELSE IF r.how = "raise"
                 THEN Outcome(d, "awaiting_quantity", <<call>>, <<>>, r.exc)
                 ELSE IF r.value[1].none
                 THEN Outcome(d, "awaiting_quantity", <<call>>,
                              <<Reply("price not computed", <<>>)>>, "none")
                 ELSE Outcome(Put(d, "order_details",
                                  [quantity |-> quantity.value,
                                   service_id |-> service_id, link |-> link]),
                              "awaiting_quantity", <<call>>,
                              <<Reply("confirm order",
                                      <<link, quantity.value, r.value[1].rate,
                                        r.value[1].total>>)>>,
                              "none")

\* the branch with the flag kept on a malformed id, as the quantity step does
StatusStepRetry(d, text, ans) ==
    LET d1 == Put(d, "awaiting_order_status", FALSE)
    IN  IF ~isdigit(text)
        THEN Outcome(d, "awaiting_order_status", <<>>,
                     <<Reply("bad order id", <<>>)>>, "none")
        ELSE LET r    == fetch_order_status(text, ans)
                 call == Call("fetch_order_status", <<text>>, r)
             IN  IF r.how = "raise"
                 THEN Outcome(d1, "awaiting_order_status", <<call>>, <<>>, r.exc)
                 ELSE Outcome(d1, "awaiting_order_status", <<call>>,
                              <<Reply("order status", r.value[1])>>, "none")

\* the awaiting_order_status branch
StatusStep(d, text, ans) ==
    LET d1 == Put(d, "awaiting_order_status", FALSE)
    IN  IF ~isdigit(text)
        THEN Outcome(d1, "awaiting_order_status", <<>>,
                     <<Reply("bad order id", <<>>)>>, "none")
        ELSE LET r    == fetch_order_status(text, ans)
                 call == Call("fetch_order_status", <<text>>, r)
             IN  IF r.how = "raise"
                 THEN Outcome(d1, "awaiting_order_status", <<call>>, <<>>, r.exc)
                 ELSE Outcome(d1, "awaiting_order_status", <<call>>,
                              <<Reply("order status", r.value[1])>>, "none")

\* the length check with a list of exactly 100 ids refused
HundredIdsRefused(order_ids) == Len(order_ids) >= MaxCancelIds

\* len(order_ids) > 100
TooManyIds(order_ids) == Len(order_ids) > MaxCancelIds

\* all(order_id.strip().isdigit() for order_id in order_ids)
AllIdsNumeric(order_ids) ==
    \A i \in 1..Len(order_ids) : isdigit(strip(order_ids[i]))

\* the awaiting_cancel_orders branch
CancelStep(d, text, ans) ==
    LET d1 == Put(d, "awaiting_cancel_orders", FALSE)
        order_ids == split(strip(text), ",")
    IN  IF TooManyIds(order_ids)
        THEN Outcome(d1, "awaiting_cancel_orders", <<>>,
                     <<Reply("too many order ids", <<>>)>>, "none")
        ELSE IF ~AllIdsNumeric(order_ids)
        THEN Outcome(d1, "awaiting_cancel_orders", <<>>,
                     <<Reply("order ids not numeric", <<>>)>>, "none")
        ELSE LET r    == cancel_orders(strip(text), ans)
                 call == Call("cancel_orders", <<strip(text)>>, r)
             IN  IF r.how = "raise"
                 THEN Outcome(d1, "awaiting_cancel_orders", <<call>>, <<>>, r.exc)
                 ELSE Outcome(d1, "awaiting_cancel_orders", <<call>>,
                              <<Reply("cancel result", r.value[1])>>, "none")

\* handle_message, given the text of the message and the answer the remote
\* side gives to the call the handler makes, if it makes one
handle_message(d, message_text, ans) ==
    LET text   == strip(message_text)
        branch == MessageBranch(d, text)
    IN  CASE branch = "order" -> OrderMenu(d, ans)
          [] branch = "balance" -> BalanceMenu(d, ans)
          [] branch = "status" -> StatusMenu(d)
          [] branch = "cancel" -> CancelMenu(d)
          [] branch = "awaiting_link" -> LinkStep(d, text)
          [] branch = "awaiting_quantity" -> QuantityStep(d, text, ans)
          [] branch = "awaiting_order_status" -> StatusStep(d, text, ans)
          [] branch = "awaiting_cancel_orders" -> CancelStep(d, text, ans)
          [] OTHER -> Outcome(d, "none", <<>>, <<>>, "none")

\* the answers of the remote side to the call of a branch that the model
\* delivers to the controller: a failure, and the well-formed answers
MessageAnswers(branch) ==
    CASE branch \in {"order", "awaiting_quantity"} ->
            {NetworkFailure, ErrorJson, CatalogA, CatalogB}
      [] branch = "balance" -> {NetworkFailure, BalanceJson}
      [] branch = "awaiting_order_status" -> {NetworkFailure, ErrorJson, StatusJson}
      [] branch = "awaiting_cancel_orders" -> {NonJsonBody, ErrorJson, CancelDone}
      [] OTHER -> {NetworkFailure}

----------------------------------------------------------------------------
(* Conversation Controller: button and start *)

\* the if/elif chain of button
ButtonBranch(data) ==
    IF startswith(data, <<"serv", "_">>) THEN "serv"
    ELSE IF startswith(data, <<"cat", "_">>) THEN "cat"
    ELSE IF data = ConfirmData THEN "confirm_order"
    ELSE IF data = CancelData THEN "cancel_order"
    ELSE "none"

\* context.user_data.clear()
Clear(d) == EmptyDict

\* the serv_ branch
ServiceChoice(d, data) ==
    LET service_id == split(data, "_")[2]
        d1 == Put(d, "selected_service_id", service_id)
        services == IF Has(d1, "services") THEN d1["services"] ELSE EmptyDict
        key == <<"serv", "_">> \o service_id
        d2 == IF Has(services, key) THEN Put(d1, "service_info", services[key][2])
              ELSE d1
    IN  IF ~Has(d2, "service_info")
        THEN Outcome(d2, "serv", <<>>, <<>>, "KeyError")
        ELSE Outcome(Put(d2, "awaiting_link", TRUE), "serv", <<>>,
                     <<Reply("enter link", d2["service_info"])>>, "none")

\* {f"serv_{service[0]}": service for service in services}
ServicesDict(services) ==
    [key \in {ServData(services[i][1]) : i \in 1..Len(services)} |->
        LET n == CHOOSE i \in 1..Len(services) :
                     /\ ServData(services[i][1]) = key
                     /\ \A j \in (i + 1)..Len(services) :
                            ServData(services[j][1]) # key
        IN  services[n]]

\* the cat_ branch
CategoryChoice(d, data, ans) ==
    LET index == int(split(data, "_")[2])
    IN  IF ~index.ok THEN Outcome(d, "cat", <<>>, <<>>, "ValueError")
        ELSE IF ~Has(d, "categories") THEN Outcome(d, "cat", <<>>, <<>>, "KeyError")
        ELSE IF index.value >= Len(d["categories"])
        THEN Outcome(d, "cat", <<>>, <<>>, "IndexError")
        ELSE LET category == d["categories"][index.value + 1]
                 r    == fetch_services(category, ans)
                 call == Call("fetch_services", <<category>>, r)
             IN  IF r.how = "raise" THEN Outcome(d, "cat", <<call>>, <<>>, r.exc)
                 ELSE IF r.value[1] = <<>>
                 THEN Outcome(d, "cat", <<call>>,
                              <<Reply("no services", <<>>)>>, "none")
                 ELSE Outcome(Put(d, "services", ServicesDict(r.value[1])), "cat",
                              <<call>>,
                              <<Reply("choose service",
                                      [i \in 1..Len(r.value[1]) |->
                                          ServData(r.value[1][i][1])])>>,
                              "none")

\* the confirm_order branch; ans answers place_order, ans2 calculate_price
ConfirmOrder(d, ans, ans2) ==
    LET order_details == IF Has(d, "order_details") THEN d["order_details"]
                         ELSE EmptyDict
    IN  IF ~Has(order_details, "service_id")
        THEN Outcome(d, "confirm_order", <<>>, <<>>, "KeyError")
        ELSE
        LET placed == place_order(order_details.service_id, order_details.link,
                                  order_details.quantity, ans)
            call == Call("place_order",
                         <<order_details.service_id, order_details.link,
                           order_details.quantity>>, placed)
        IN  IF placed.how = "raise"
            THEN Outcome(d, "confirm_order", <<call>>, <<>>, placed.exc)
            ELSE IF ~Truthy(placed.value[1])
            THEN Outcome(Clear(d), "confirm_order", <<call>>,
                         <<Reply("order not created", <<>>)>>, "none")
            ELSE
            LET price == calculate_price(order_details.service_id,
                                         order_details.quantity, ans2)
                call2 == Call("calculate_price",
                              <<order_details.service_id, order_details.quantity>>, price)
            IN  IF price.how = "raise"
                THEN Outcome(d, "confirm_order", <<call, call2>>, <<>>, price.exc)
                ELSE IF price.value[1].none
                THEN Outcome(d, "confirm_order", <<call, call2>>, <<>>, "TypeError")
                ELSE Outcome(Clear(d), "confirm_order", <<call, call2>>,
                             <<Reply("order placed",
                                     <<str(placed.value[1]), order_details.link,
                                       order_details.quantity, price.value[1].rate,
                                       price.value[1].total>>)>>,
                             "none")

\* the cancel_order branch
CancelOrder(d) ==
    Outcome(Clear(d), "cancel_order", <<>>, <<Reply("order cancelled", <<>>)>>, "none")

\* button, given the callback data of the pressed button and the answers the
\* remote side gives to the first and the second call of the handler
button(d, data, ans, ans2) ==
    LET branch == ButtonBranch(data)
    IN  CASE branch = "serv" -> ServiceChoice(d, data)
          [] branch = "cat" -> CategoryChoice(d, data, ans)
          [] branch = "confirm_order" -> ConfirmOrder(d, ans, ans2)
          [] branch = "cancel_order" -> CancelOrder(d)
          [] OTHER -> Outcome(d, "none", <<>>, <<>>, "none")

\* the answers of the remote side to the first call of a branch
ButtonAnswers(branch) ==
    CASE branch = "cat" -> {NetworkFailure, ErrorJson, CatalogA, CatalogB}
      [] branch = "confirm_order" -> {NetworkFailure, OrderRefused, OrderPlaced}
      [] OTHER -> {NetworkFailure}

\* the answers of the remote side to the second call of a branch
SecondAnswers(branch) ==
    IF branch = "confirm_order" THEN {NetworkFailure, ErrorJson, CatalogA, CatalogB}
    ELSE {NetworkFailure}

\* start
start(d) == Outcome(d, "start", <<>>, <<Reply("welcome", <<>>)>>, "none")

----------------------------------------------------------------------------
(* The state machine: Application.run_polling hands the updates to the       *)
(* handlers one at a time (concurrent_updates is off by default), so a       *)
(* handler runs from its first line to its return as one step.               *)

\* the buttons on the screen of a user who has received nothing yet
NoButtons == [services |-> {}, prompts |-> <<>>, confirm |-> FALSE]

\* the category prompts on the screen after one more was sent
AddPrompt(prompts, categories) ==
    IF \E i \in 1..Len(prompts) : prompts[i] = categories THEN prompts
    ELSE IF Len(prompts) < MaxPrompts THEN Append(prompts, categories)
    ELSE Append(Tail(prompts), categories)

\* the buttons on the screen after the replies of a handler
Shown(sh, replies) ==
    IF replies = <<>> THEN sh
    ELSE LET r == replies[1]
         IN  CASE r.kind = "choose category" ->
                    [sh EXCEPT !.prompts = AddPrompt(@, r.detail)]
               [] r.kind = "choose service" ->
                    [sh EXCEPT !.services =
                        @ \cup {r.detail[i] : i \in 1..Len(r.detail)}]
               [] r.kind = "confirm order" -> [sh EXCEPT !.confirm = TRUE]
               [] OTHER -> sh

\* the buttons a user can press: callback data, and for a category button the
\* category it is labelled with
Presses(sh) ==
    UNION {{[data |-> CatData(i - 1), listed |-> sh.prompts[k][i]] :
               i \in 1..Len(sh.prompts[k])} : k \in 1..Len(sh.prompts)}
    \cup {[data |-> b, listed |-> None] : b \in sh.services}
    \cup (IF sh.confirm
          THEN {[data |-> ConfirmData, listed |-> None],
                [data |-> CancelData, listed |-> None]}
          ELSE {})

\* one dict for the whole bot instead of one per user
StoreShared(u, d) == [v \in Users |-> d]

\* context.user_data of the user of the update, after the handler changed it
Store(u, d) == [user_data EXCEPT ![u] = d]

\* the update handled, and what its handler did
Handled(u, kind, data, listed, out) ==
    [data |-> data, kind |-> kind, branch |-> out.branch, calls |-> out.calls,
     replies |-> out.replies, fault |-> out.fault, listed |-> listed,
     user |-> u]

Dispatch(u, kind, data, listed, outcome) ==
    LET out == outcome
    IN  /\ handled' = handled + 1
        /\ user_data' = Store(u, out.d)
        /\ shown' = [shown EXCEPT ![u] = Shown(@, out.replies)]
        /\ last' = Handled(u, kind, data, listed, out)

Init ==
    /\ user_data = [u \in Users |-> EmptyDict]
    /\ shown = [u \in Users |-> NoButtons]
    /\ last = [data |-> <<>>, kind |-> "none", branch |-> "none", calls |-> <<>>,
               replies |-> <<>>, fault |-> "none", listed |-> None,
               user |-> "nobody"]
    /\ handled = 0

\* CommandHandler("start", start)
StartUpdate(u) ==
    Dispatch(u, "start", <<"/start">>, None, start(user_data[u]))

\* MessageHandler(filters.TEXT & ~filters.COMMAND, handle_message)
MessageUpdate(u, message_text) ==
    \E ans \in MessageAnswers(MessageBranch(user_data[u], strip(message_text))) :
        Dispatch(u, "text", message_text, None,
                 handle_message(user_data[u], message_text, ans))

\* CallbackQueryHandler(button)
ButtonUpdate(u) ==
    \E press \in Presses(shown[u]) :
        \E ans \in ButtonAnswers(ButtonBranch(press.data)),
           ans2 \in SecondAnswers(ButtonBranch(press.data)) :
            Dispatch(u, "button", press.data, press.listed,
                     button(user_data[u], press.data, ans, ans2))

\* the updates of one user, with every text
Next ==
    \/ handled < MaxUpdates /\ StartUpdate("u1")
    \/ \E message_text \in Texts :
           handled < MaxUpdates /\ MessageUpdate("u1", message_text)
    \/ handled < MaxUpdates /\ ButtonUpdate("u1")

Spec == Init /\ [][Next]_vars

----------------------------------------------------------------------------
(* One user placing orders: the texts of the order flow and every button,   *)
(* over longer runs                                                          *)

OrderTexts == {MenuOrder, <<"9">>, <<"1", "0">>, <<"5", "0", "0", "0", "0">>}

NextOrder ==
    \/ \E message_text \in OrderTexts :
           handled < MaxOrderUpdates /\ MessageUpdate("u1", message_text)
    \/ handled < MaxOrderUpdates /\ ButtonUpdate("u1")

SpecOrder == Init /\ [][NextOrder]_vars

----------------------------------------------------------------------------
(* Two users: the updates of both, in any order, with a few texts *)

UsersTexts == {MenuOrder, MenuStatus, <<"1", "0">>, <<"abc">>}

NextUsers ==
    \/ \E u \in Users : handled < MaxUsersUpdates /\ StartUpdate(u)
    \/ \E u \in Users, message_text \in UsersTexts :
           handled < MaxUsersUpdates /\ MessageUpdate(u, message_text)
    \/ \E u \in Users : handled < MaxUsersUpdates /\ ButtonUpdate(u)

SpecUsers == Init /\ [][NextUsers]_vars

----------------------------------------------------------------------------
(* The Remote Service Client alone: every operation on every kind of answer *)

\* arguments the controller passes
ClientServiceIds == {<<"1">>, <<"2">>, <<"3">>, <<"4">>}
ClientQuantities == {MinQuantity, 2 * MinQuantity, MaxQuantity}
ClientLinks == {<<"abc">>}
ClientCategories == {<<"SMM">>, <<"TG">>, <<"INST">>}
ClientOrderIds == {<<"1", "0">>}

\* the operation called, the answer it got (as the data of the step) and
\* what it gave back
ClientCall(ans, call) ==
    /\ last' = [data |-> <<ans>>, kind |-> "call", branch |-> call.op,
                calls |-> <<call>>, replies |-> <<>>,
                fault |-> call.result.exc, listed |-> None, user |-> "nobody"]
    /\ UNCHANGED <<user_data, shown, handled>>

CallCalculatePrice ==
    \E service_id \in ClientServiceIds, quantity \in ClientQuantities, ans \in Answers :
        ClientCall(ans, Call("calculate_price", <<service_id, quantity>>,
                             calculate_price(service_id, quantity, ans)))

CallPlaceOrder ==
    \E service_id \in ClientServiceIds, link \in ClientLinks,
       quantity \in ClientQuantities, ans \in Answers :
        ClientCall(ans, Call("place_order", <<service_id, link, quantity>>,
                             place_order(service_id, link, quantity, ans)))

CallCancelOrders ==
    \E order_ids \in ClientOrderIds, ans \in Answers :
        ClientCall(ans, Call("cancel_orders", <<order_ids>>,
                             cancel_orders(order_ids, ans)))

CallFetchCategories ==
    \E ans \in Answers :
        ClientCall(ans, Call("fetch_categories", <<>>, fetch_categories(ans)))

CallFetchServices ==
    \E category \in ClientCategories, ans \in Answers :
        ClientCall(ans, Call("fetch_services", <<category>>,
                             fetch_services(category, ans)))

CallFetchBalance ==
    \E ans \in Answers :
        ClientCall(ans, Call("fetch_balance", <<>>, fetch_balance(ans)))

CallFetchOrderStatus ==
    \E order_id \in ClientOrderIds, ans \in Answers :
        ClientCall(ans, Call("fetch_order_status", <<order_id>>,
                             fetch_order_status(order_id, ans)))

NextClient ==
    \/ CallCalculatePrice
    \/ CallPlaceOrder
    \/ CallCancelOrders
    \/ CallFetchCategories
    \/ CallFetchServices
    \/ CallFetchBalance
    \/ CallFetchOrderStatus

SpecClient == Init /\ [][NextClient]_vars

----------------------------------------------------------------------------
(* What the last handler did *)

AwaitingFlags ==
    {"awaiting_link", "awaiting_quantity", "awaiting_order_status",
     "awaiting_cancel_orders"}

\* the calls of the last handler to an operation of the client
CallsOf(calls, op) == {i \in 1..Len(calls) : calls[i].op = op}

\* the last handler sent exactly one reply, of this kind
RepliedOnly(replies, kind) == Len(replies) = 1 /\ replies[1].kind = kind

\* the message is none of the menu phrases
FreeText(message_text) == strip(message_text) \notin MenuTexts

\* every character is one of 0..9 and there is at least one
AllDigits(s) == s # <<>> /\ \A i \in 1..Len(s) : s[i] \in Digits

----------------------------------------------------------------------------
(* The claims *)

\* C1: in every reachable state at most one of awaiting_link,
\* awaiting_quantity, awaiting_order_status, awaiting_cancel_orders is true
\* in a user's ConversationState.
AtMostOneAwaiting ==
    \A u \in Users :
        Cardinality({f \in AwaitingFlags : Flag(user_data[u], f)}) <= 1

\* C2: a free text handled while awaiting_quantity is set and awaiting_link is
\* not reaches the confirmation step (calculate_price is called and, if it gives
\* a price, order_details is stored and the confirmation prompt is sent) exactly
\* when it parses as an integer q with 10 <= q <= 50000; otherwise one error
\* reply is sent, no remote call is made and the state is unchanged, with
\* awaiting_quantity still set.
QuantityStepContract ==
    [][(/\ last'.kind = "text"
        /\ FreeText(last'.data)
        /\ Flag(user_data[last'.user], "awaiting_quantity")
        /\ ~Flag(user_data[last'.user], "awaiting_link"))
       => LET u  == last'.user
              q  == int(strip(last'.data))
              accepted == q.ok /\ 10 <= q.value /\ q.value <= 50000
              priced == CallsOf(last'.calls, "calculate_price")
          IN  /\ accepted <=> priced # {}
              /\ accepted =>
                    /\ Len(last'.calls) = 1
                    /\ last'.calls[1].args = <<user_data[u].selected_service_id, q.value>>
                    /\ last'.calls[1].result.how = "return"
                    /\ IF last'.calls[1].result.value[1].none
                       THEN /\ RepliedOnly(last'.replies, "price not computed")
                            /\ user_data'[u] = user_data[u]
                       ELSE /\ RepliedOnly(last'.replies, "confirm order")
                            /\ Has(user_data'[u], "order_details")
                            /\ user_data'[u].order_details =
                                  [quantity |-> q.value,
                                   service_id |-> user_data[u].selected_service_id,
                                   link |-> user_data[u].link]
              /\ ~accepted =>
                    /\ last'.calls = <<>>
                    /\ \/ RepliedOnly(last'.replies, "not a number")
                       \/ RepliedOnly(last'.replies, "quantity out of range")
                    /\ user_data'[u] = user_data[u]
              /\ Flag(user_data'[u], "awaiting_quantity")]_vars

\* C2 witness: a quantity of 50000 was accepted, priced and the confirmation
\* prompt sent.
QuantityAccepted ==
    /\ last.kind = "text"
    /\ last.branch = "awaiting_quantity"
    /\ RepliedOnly(last.replies, "confirm order")
    /\ Has(user_data[last.user], "order_details")
    /\ user_data[last.user].order_details.quantity = 50000

\* C3: after every confirm_order and every cancel_order choice, whatever the
\* remote side answered, the user's ConversationState is empty.
ConfirmClearsState ==
    (last.kind = "button" /\ last.data \in {ConfirmData, CancelData})
    => user_data[last.user] = EmptyDict

\* C4: a confirm_order whose place_order gave an order id is followed by a
\* success reply carrying that id, the link and the quantity; one whose
\* place_order gave None is followed by the order-creation error reply.
PlacedOrderReported ==
    (last.kind = "button" /\ last.data = ConfirmData
       /\ CallsOf(last.calls, "place_order") # {})
    => LET placed == last.calls[1]
       IN  IF placed.result.how = "return" /\ Truthy(placed.result.value[1])
           THEN /\ RepliedOnly(last.replies, "order placed")
                /\ last.replies[1].detail[1] = str(placed.result.value[1])
                /\ last.replies[1].detail[2] = placed.args[2]
                /\ last.replies[1].detail[3] = placed.args[3]
           ELSE RepliedOnly(last.replies, "order not created")

\* C5: a free text handled by the cancel-orders step calls cancel_orders, with
\* the trimmed text, exactly when the comma-split list has at most 100 entries
\* and every entry, trimmed, is non-empty and all digits; otherwise one error
\* reply is sent and no remote call is made.  Either way awaiting_cancel_orders
\* is false afterwards.
CancelStepContract ==
    (last.kind = "text" /\ last.branch = "awaiting_cancel_orders")
    => LET text  == strip(last.data)
           ids   == split(text, ",")
           valid == /\ Len(ids) <= 100
                    /\ \A i \in 1..Len(ids) : AllDigits(strip(ids[i]))
       IN  /\ valid <=> last.calls # <<>>
           /\ valid =>
                 /\ Len(last.calls) = 1
                 /\ last.calls[1].op = "cancel_orders"
                 /\ last.calls[1].args = <<text>>
           /\ ~valid =>
                 \/ RepliedOnly(last.replies, "too many order ids")
                 \/ RepliedOnly(last.replies, "order ids not numeric")
           /\ Has(user_data[last.user], "awaiting_cancel_orders")
           /\ user_data[last.user].awaiting_cancel_orders = FALSE

\* C5 witness: a list of exactly 100 ids was passed on to cancel_orders.
HundredIdsCancelled ==
    /\ last.kind = "text"
    /\ last.branch = "awaiting_cancel_orders"
    /\ Len(split(strip(last.data), ",")) = 100
    /\ CallsOf(last.calls, "cancel_orders") # {}


\* the answers that are failures of the remote call
FailureAnswers == {NetworkFailure, NonJsonBody, ErrorJson, ScalarJson}

\* what an operation gives back for a failure: None, (None, None), an empty
\* list or an error string
FailureValue(op, v) ==
    CASE op = "calculate_price" -> v.none
      [] op = "place_order" -> v = PyNone
      [] op \in {"fetch_categories", "fetch_services"} -> v = <<>>
      [] op = "cancel_orders" ->
            v[1] \in {"cancel: network error", "cancel: malformed response",
                      "cancel: error", "cancel: internal error"}
      [] op = "fetch_balance" -> v[1] = "balance: error"
      [] op = "fetch_order_status" ->
            v[1] \in {"status: network error", "status: malformed response",
                      "status: error", "status: internal error"}

\* C6: every operation of the Remote Service Client returns a value for every
\* answer of the remote side and raises nothing to its caller; for a network
\* failure, a non-JSON body, a JSON error and a JSON of another shape the value
\* is None, (None, None), an empty list or an error string.
ClientAlwaysReturns ==
    last.kind = "call"
    => /\ Len(last.calls) = 1
       /\ last.calls[1].result.how = "return"
       /\ last.fault = "none"
       /\ last.data[1] \in FailureAnswers
             => FailureValue(last.calls[1].op, last.calls[1].result.value[1])

\* C6 witness: calculate_price got a JSON number where a list was expected and
\* returned (None, None).
PriceOfScalarIsNone ==
    /\ last.kind = "call"
    /\ last.data = <<ScalarJson>>
    /\ last.calls[1].op = "calculate_price"
    /\ last.calls[1].result.how = "return"
    /\ last.calls[1].result.value[1] = NonePair

\* C7: every handler returns; none ends in an exception.
HandlersComplete == last.fault = "none"

\* C8: the free text that follows the order-status (the cancel) menu action is
\* that flow's input: an all-digit text leads to a fetch_order_status call (a
\* valid id list to a cancel_orders call), whatever the ConversationState was
\* when the menu action was taken.
AwaitedInputHandled ==
    [][(last.kind = "text" /\ last'.kind = "text" /\ last'.user = last.user
          /\ FreeText(last'.data))
       => LET text == strip(last'.data)
              ids  == split(text, ",")
          IN  /\ (last.branch = "status" /\ AllDigits(text))
                    => CallsOf(last'.calls, "fetch_order_status") # {}
              /\ (/\ last.branch = "cancel"
                  /\ Len(ids) <= MaxCancelIds
                  /\ \A i \in 1..Len(ids) : AllDigits(strip(ids[i])))
                    => CallsOf(last'.calls, "cancel_orders") # {}]_vars

\* C9: handling an update of one user leaves the ConversationState, and the
\* buttons, of every other user as they were.
OtherUsersUntouched ==
    [][\A b \in Users :
          b # last'.user => user_data'[b] = user_data[b] /\ shown'[b] = shown[b]]_vars

\* C9 witness: an update of u2 was handled while u1 was in the middle of an
\* order and u2 in another flow.
BothUsersInFlow ==
    /\ last.user = "u2"
    /\ Flag(user_data["u1"], "awaiting_link")
    /\ Flag(user_data["u2"], "awaiting_order_status")
    /\ ~Has(user_data["u2"], "awaiting_link")

\* C10: the category passed to fetch_services by a category choice is the
\* category the pressed button was labelled with.
CategoryRoundTrip ==
    (last.kind = "button" /\ last.branch = "cat"
       /\ CallsOf(last.calls, "fetch_services") # {})
    => last.calls[1].args = <<last.listed>>


\* the last step was this operation of the client, answered by ans
Called(op, ans) == last.kind = "call" /\ last.branch = op /\ last.data = <<ans>>

\* what the operation called last gave back
Returned == last.calls[1].result.value[1]

\* C11 (as stated): for a services list with one service {service: "1",
\* category: "SMM", rate: "10.0"} and one other service of a different
\* category, fetch_categories returns exactly one category, "SMM", and
\* fetch_services("SMM") returns exactly one entry, the one for service 1.
PlainCatalogOneCategory ==
    /\ Called("fetch_categories", CatalogPlain) => Returned = <<<<"SMM">>>>
    /\ (Called("fetch_services", CatalogPlain) /\ last.calls[1].args = <<<<"SMM">>>>)
          => (Len(Returned) = 1 /\ Returned[1][1] = JStr(<<"1">>))

\* C11 (amended): for that list fetch_categories returns both categories,
\* sorted ascending, "SMM" and then the other service's category, and
\* fetch_services("SMM") returns exactly one entry, the one for service 1,
\* labelled with id 1 and the price 10.00.
PlainCatalogBothCategories ==
    /\ Called("fetch_categories", CatalogPlain)
          => Returned = <<<<"SMM">>, <<"TG">>>>
    /\ (Called("fetch_services", CatalogPlain) /\ last.calls[1].args = <<<<"SMM">>>>)
          => /\ Len(Returned) = 1
             /\ Returned[1][1] = JStr(<<"1">>)
             /\ Returned[1][2][1] = <<"1">>
             /\ Returned[1][2][3] = <<"price", 1000, <<"1000">>>>

\* C11 witness: fetch_categories was called on that list and gave two
\* categories.
PlainCatalogListed ==
    /\ Called("fetch_categories", CatalogPlain)
    /\ Len(Returned) = 2


\* C12: calculate_price returns (rate * q / 1000, rate), rate being the rate of
\* the first service in remote order whose identifier (its "service" field)
\* equals service_id as a string, and (None, None) when no service matches or
\* the call fails (the request, the JSON, or the rate's conversion); for a
\* fixed service the total for 2 * q is twice the total for q.
PriceContract ==
    [][(last'.kind = "call" /\ last'.branch = "calculate_price")
       => LET ans        == last'.data[1]
              call       == last'.calls[1]
              service_id == call.args[1]
              q          == call.args[2]
              got        == call.result.value[1]
              matches    == {i \in 1..Len(ans.items) :
                                /\ ans.net /\ ans.json /\ ans.type = "list"
                                /\ str(Get(ans.items[i], "service", PyNone)) = service_id}
          IN  /\ call.result.how = "return"
              /\ IF matches = {} THEN got = NonePair
                 ELSE LET first == CHOOSE i \in matches : \A j \in matches : i <= j
                          rate  == float(str(Get(ans.items[first], "rate", JInt(<<"0">>))))
                      IN  IF ~rate.ok THEN got = NonePair
                          ELSE /\ ~got.none
                               /\ got.rate = rate.value
                               /\ got.total = rate.value * q
              /\ (/\ last.kind = "call" /\ last.branch = "calculate_price"
                  /\ last.data = last'.data
                  /\ last.calls[1].args[1] = service_id
                  /\ q = 2 * last.calls[1].args[2]
                  /\ ~got.none /\ ~last.calls[1].result.value[1].none)
                    => got.total = 2 * last.calls[1].result.value[1].total]_vars

\* C12 witness: of two services with id 1 the first one's rate, 10.0, priced
\* a quantity of 20.
FirstMatchPriced ==
    /\ Called("calculate_price", CatalogTwice)
    /\ last.calls[1].args = <<<<"1">>, 2 * MinQuantity>>
    /\ Returned = [rate |-> 1000, none |-> FALSE, total |-> 1000 * 2 * MinQuantity]


\* C13: a start event that arrives mid-flow resets the ConversationState (no
\* awaiting-flag, selected service, link or order_details is left), so the
\* free text that follows it is not handled as the link or the quantity of the
\* abandoned flow.
StartResetsFlow ==
    [][/\ last'.kind = "start"
          => LET d == user_data'[last'.user]
             IN  /\ \A f \in AwaitingFlags : ~Flag(d, f)
                 /\ \A k \in {"selected_service_id", "link", "order_details"} :
                       ~Has(d, k)
       /\ (last.kind = "start" /\ last'.kind = "text" /\ last'.user = last.user
             /\ FreeText(last'.data))
          => last'.branch \notin {"awaiting_link", "awaiting_quantity"}]_vars


\* the awaiting-flags in the order the claim gives them
FlagOrder ==
    <<"awaiting_link", "awaiting_quantity", "awaiting_order_status",
      "awaiting_cancel_orders">>

\* the replies by which a menu action or an awaiting-flag branch shows
ReplyKinds(handling) ==
    CASE handling = "order" -> {"categories not loaded", "choose category"}
      [] handling = "balance" -> {"balance"}
      [] handling = "status" -> {"enter order id"}
      [] handling = "cancel" -> {"enter order ids"}
      [] handling = "awaiting_link" -> {"enter quantity"}
      [] handling = "awaiting_quantity" ->
            {"not a number", "quantity out of range", "service or link missing",
             "price not computed", "confirm order"}
      [] handling = "awaiting_order_status" -> {"bad order id", "order status"}
      [] handling = "awaiting_cancel_orders" ->
            {"too many order ids", "order ids not numeric", "cancel result"}

\* C14: a free-text message whose trimmed text is one of the four menu phrases
\* gets the menu action and no awaiting-flag branch; any other text is handled
\* by the branch of the first flag set, in the order awaiting_link,
\* awaiting_quantity, awaiting_order_status, awaiting_cancel_orders; with no
\* flag set it changes no state, makes no remote call and gets no reply.
MessagePrecedence ==
    [][last'.kind = "text"
       => LET u    == last'.user
              d    == user_data[u]
              text == strip(last'.data)
              set  == {i \in 1..Len(FlagOrder) : Flag(d, FlagOrder[i])}
              expected ==
                  IF text = MenuOrder THEN "order"
                  ELSE IF text = MenuBalance THEN "balance"
                  ELSE IF text = MenuStatus THEN "status"
                  ELSE IF text = MenuCancel THEN "cancel"
                  ELSE IF set = {} THEN "none"
                  ELSE FlagOrder[CHOOSE i \in set : \A j \in set : i <= j]
          IN  IF expected = "none"
              THEN /\ last'.replies = <<>>
                   /\ last'.calls = <<>>
                   /\ user_data' = user_data
              ELSE /\ Len(last'.replies) = 1
                   /\ last'.replies[1].kind \in ReplyKinds(expected)]_vars

\* C14 witness: the balance menu phrase got the balance while a link was
\* awaited.
MenuWinsOverFlag ==
    /\ last.kind = "text"
    /\ strip(last.data) = MenuBalance
    /\ RepliedOnly(last.replies, "balance")
    /\ Flag(user_data[last.user], "awaiting_link")


\* C15: the order-status step is single-shot: after a free text handled by the
\* awaiting_order_status branch the flag is false, whatever the text;
\* fetch_order_status is called exactly when the text is all digits; any other
\* text gets an error reply and no remote call; and the free text that follows
\* is not treated as an order id.
StatusStepSingleShot ==
    [][/\ (last'.kind = "text" /\ last'.branch = "awaiting_order_status")
          => LET text == strip(last'.data)
             IN  /\ ~Flag(user_data'[last'.user], "awaiting_order_status")
                 /\ AllDigits(text) <=> CallsOf(last'.calls, "fetch_order_status") # {}
                 /\ AllDigits(text)
                       => /\ Len(last'.calls) = 1
                          /\ last'.calls[1].args = <<text>>
                          /\ RepliedOnly(last'.replies, "order status")
                 /\ ~AllDigits(text)
                       => /\ last'.calls = <<>>
                          /\ RepliedOnly(last'.replies, "bad order id")
       /\ (/\ last.kind = "text" /\ last.branch = "awaiting_order_status"
           /\ last'.kind = "text" /\ last'.user = last.user
           /\ FreeText(last'.data))
          => /\ CallsOf(last'.calls, "fetch_order_status") = {}
             /\ \A i \in 1..Len(last'.replies) :
                   last'.replies[i].kind \notin ReplyKinds("awaiting_order_status")]_vars

\* C15 witness: a text that is no order id was refused by the order-status
\* step and the flag is false.
BadOrderIdConsumed ==
    /\ last.kind = "text"
    /\ last.branch = "awaiting_order_status"
    /\ RepliedOnly(last.replies, "bad order id")
    /\ Has(user_data[last.user], "awaiting_order_status")
    /\ ~Flag(user_data[last.user], "awaiting_order_status")


\* C16: after every service choice that sets awaiting_link,
\* selected_service_id is the id of an entry of the cached services mapping
\* and service_info is that entry's label.
SelectedServiceCached ==
    (last.kind = "button" /\ last.branch = "serv" /\ last.fault = "none"
       /\ Flag(user_data[last.user], "awaiting_link"))
    => LET d   == user_data[last.user]
           key == <<"serv", "_">> \o d["selected_service_id"]
       IN  /\ Has(d, "services")
           /\ Has(d["services"], key)
           /\ str(d["services"][key][1]) = d["selected_service_id"]
           /\ d["service_info"] = d["services"][key][2]

\* C17: two confirm_order events of one user handled one after the other:
\* only the first calls place_order, so one confirmation prompt gives one order.
ConfirmTwiceOrdersOnce ==
    [][(/\ last.kind = "button" /\ last.data = ConfirmData
        /\ CallsOf(last.calls, "place_order") # {}
        /\ last'.kind = "button" /\ last'.data = ConfirmData
        /\ last'.user = last.user)
       => CallsOf(last'.calls, "place_order") = {}]_vars


\* the key is absent before and after, or present with the same value
SameEntry(d, d2, k) ==
    /\ Has(d, k) <=> Has(d2, k)
    /\ Has(d, k) => d[k] = d2[k]

\* C18: every place_order call is made from a confirm_order event and carries
\* an integer quantity with 10 <= quantity <= 50000 and exactly the
\* service_id, link and quantity of the most recent confirmation prompt;
\* place_order is never called when no confirmation prompt was sent since the
\* last state clear.  order_details is what remembers the most recent prompt:
\* it is written exactly when a prompt is sent, with the prompt's link and
\* quantity and the service selected then, and removed only by a state clear.
OrdersFollowPrompt ==
    [][LET u  == last'.user
           d  == user_data[u]
           d2 == user_data'[u]
           prompts == {i \in 1..Len(last'.replies) :
                          last'.replies[i].kind = "confirm order"}
       IN  /\ CallsOf(last'.calls, "place_order") # {}
                 => /\ last'.kind = "button" /\ last'.data = ConfirmData
                    /\ CallsOf(last'.calls, "place_order") = {1}
                    /\ Has(d, "order_details")
                    /\ last'.calls[1].args =
                          <<d["order_details"].service_id, d["order_details"].link,
                            d["order_details"].quantity>>
                    /\ last'.calls[1].args[3] \in MinQuantity..MaxQuantity
           /\ prompts # {}
                 => /\ last'.kind = "text"
                    /\ Has(d2, "order_details")
                    /\ d2["order_details"] =
                          [quantity |-> last'.replies[1].detail[2],
                           service_id |-> d["selected_service_id"],
                           link |-> last'.replies[1].detail[1]]
           /\ prompts = {}
                 => \/ SameEntry(d, d2, "order_details")
                    \/ d2 = EmptyDict]_vars

\* C18 witness: confirm_order called place_order with the quantity 50000 of
\* the prompt and reported the order.
PromptedOrderPlaced ==
    /\ last.kind = "button"
    /\ last.data = ConfirmData
    /\ CallsOf(last.calls, "place_order") = {1}
    /\ last.calls[1].args[3] = MaxQuantity
    /\ RepliedOnly(last.replies, "order placed")


\* C19: once awaiting_quantity is set it stays set across every later event
\* except a confirm_order or cancel_order choice that clears the state; after
\* the confirmation prompt and after a pricing failure the next free text is
\* handled as a new quantity and, when valid and priced, replaces
\* order_details with the new quantity.
QuantityFlagStays ==
    [][LET u  == last'.user
           d  == user_data[u]
           d2 == user_data'[u]
       IN  /\ Flag(d, "awaiting_quantity")
                 => \/ Flag(d2, "awaiting_quantity")
                    \/ /\ last'.kind = "button"
                       /\ last'.data \in {ConfirmData, CancelData}
                       /\ d2 = EmptyDict
           /\ (/\ last.kind = "text" /\ last.branch = "awaiting_quantity"
               /\ last.user = u
               /\ \/ RepliedOnly(last.replies, "confirm order")
                  \/ RepliedOnly(last.replies, "price not computed")
               /\ last'.kind = "text" /\ FreeText(last'.data))
                 => /\ Len(last'.replies) = 1
                    /\ last'.replies[1].kind \in ReplyKinds("awaiting_quantity")
                    /\ RepliedOnly(last'.replies, "confirm order")
                          => /\ Has(d2, "order_details")
                             /\ d2["order_details"].quantity =
                                   int(strip(last'.data)).value]_vars

\* C19 witness: the confirmation prompt for a quantity of 50000 was sent and
\* awaiting_quantity is still set.
QuantityStillAwaited ==
    /\ last.kind = "text"
    /\ last.branch = "awaiting_quantity"
    /\ RepliedOnly(last.replies, "confirm order")
    /\ user_data[last.user]["order_details"].quantity = MaxQuantity
    /\ Flag(user_data[last.user], "awaiting_quantity")


\* C20: for one user whose updates are handled one at a time, with non-empty
\* texts and non-empty service ids, awaiting_quantity being set implies that
\* selected_service_id and link are both present, and the quantity step never
\* answers that the service or the link is missing.
QuantityHasServiceAndLink ==
    /\ \A u \in Users :
           Flag(user_data[u], "awaiting_quantity")
               => /\ Present(user_data[u], "selected_service_id")
                  /\ Present(user_data[u], "link")
    /\ \A i \in 1..Len(last.replies) :
           last.replies[i].kind # "service or link missing"

\* C20 witness: a valid quantity passed the check of service and link and went
\* on to the pricing, which failed.
QuantityPassedPresenceCheck ==
    /\ last.kind = "text"
    /\ last.branch = "awaiting_quantity"
    /\ RepliedOnly(last.replies, "price not computed")
    /\ Present(user_data[last.user], "selected_service_id")
    /\ Present(user_data[last.user], "link")

====
